---- MODULE Spec2Model ----
(***************************************************************************)
(* Model of the action-flow engine of kicad-mcp-python:                    *)
(*   core/ActionFlowManager.py     ActionFlowManager                       *)
(*   pcb/tools/manipulate_tool.py  Create/Edit/Move/Remove flow managers   *)
(*   pcb/tools/verify_tool.py      VerifyFlowManager                       *)
(*                                                                         *)
(* Two specifications share the variables:                                 *)
(*   Spec     the program: the two register_tools calls followed by tool   *)
(*            invocations arriving one at a time from the transport.       *)
(*   SpecLib  the ActionFlowManager class on its own: one manager, any     *)
(*            sequence of action_setter / get_next_action /                *)
(*            response_formatter / wrapper calls.                          *)
(*                                                                         *)
(* Python values are modelled as follows.  None is the string "None".     *)
(* A str built by an f-string is the sequence of its pieces, so            *)
(* f"Next execution: {n}" is <<"Next execution: ", n>>.  A dict with fixed *)
(* keys is a record, an exception is [cls, msg], a payload is a record     *)
(* with a field p naming what it is.                                       *)
(***************************************************************************)
EXTENDS Integers, Sequences, FiniteSets, TLC

\* ------------------------------------------------------------------ bounds
MaxCreated == 1     \* items the engine may create on top of the initial board
MaxFlow    == 3     \* SpecLib: longest Action Sequence explored
MaxCoord   == 14    \* SpecMove: largest coordinate a move may reach
MaxDegrees == 90    \* SpecMove: largest orientation a move may reach

\* --------------------------------------------------------------- constants
None == "None"

\* The flow managers constructed by the two register_tools class methods.
Managers == {"create", "edit", "move", "remove", "verify"}

\* The step methods each constructor hands to action_setter, in order.
Steps(m) ==
  CASE m = "create" -> <<"create_item_step_1", "create_item_step_2", "create_item_step_3">>
    [] m = "edit"   -> <<"edit_item_step_1", "edit_item_step_2", "edit_item_step_3">>
    [] m = "move"   -> <<"move_item_step_1", "move_item_step_2", "move_item_step_3">>
    [] m = "remove" -> <<"remove_item_step_1">>
    [] m = "verify" -> <<"verify_pcb_step_1">>

StepSet(m) == {Steps(m)[i] : i \in 1..Len(Steps(m))}

ToolNames == UNION {StepSet(m) : m \in Managers}

\* ManipulationTools.register_tools constructs four managers in this order;
\* each constructor registers its steps in order, so the call performs this
\* sequence of action_setter calls (manager, step name).
ManipulationRegs ==
  <<  <<"create", "create_item_step_1">>, <<"create", "create_item_step_2">>,
      <<"create", "create_item_step_3">>,
      <<"edit", "edit_item_step_1">>, <<"edit", "edit_item_step_2">>,
      <<"edit", "edit_item_step_3">>,
      <<"move", "move_item_step_1">>, <<"move", "move_item_step_2">>,
      <<"move", "move_item_step_3">>,
      <<"remove", "remove_item_step_1">>  >>

\* VerifyTools.register_tools constructs one manager.
VerifyRegs == <<  <<"verify", "verify_pcb_step_1">>  >>

\* The objects that keep a Board Handle in self.board: the flow managers
\* and the BoardAnalyzer that register_tools constructs after them.
BoardHolders == Managers \cup {"analyzer"}

\* Methods and attributes an ActionFlowManager instance has from its class
\* (instance attributes set later, board and item_type_cache, are variables).
ClassAttrs ==
  {"initialize_board", "get_next_action", "response_formatter",
   "action_setter", "get_mcp_tools"}

\* -------------------------------------------------------------- exceptions
Exc(cls, msg) == [cls |-> cls, msg |-> msg]

\* str(e): the message of the exception.
Str(e) == e.msg

\* Faults of the CAD engine client (kipy), with the message each carries.
EngineErrors == {"ApiError"}

EngineMsg(cls) == <<"KiCad returned error">>

EngineExc(cls) == Exc(cls, EngineMsg(cls))

\* ------------------------------------------------- Action Sequence Tracker
\* list.index: 1-based position of the first occurrence, 0 for ValueError.
Index(flow, x) ==
  IF \E i \in 1..Len(flow) : flow[i] = x
  THEN CHOOSE i \in 1..Len(flow) :
         flow[i] = x /\ \A j \in 1..(i - 1) : flow[j] # x
  ELSE 0

get_next_action_skip(flow, current_action) ==
  LET i == Index(flow, current_action)
  IN  IF i = 0 THEN None
      ELSE IF i + 2 <= Len(flow) THEN flow[i + 2] ELSE None

get_next_action(flow, current_action) ==
  LET i == Index(flow, current_action)
  IN  IF i = 0 THEN None
      ELSE IF i + 1 <= Len(flow) THEN flow[i + 1] ELSE None

\* ------------------------------------------------------ Response Formatter
\* Python truthiness of an Optional[str].
Truthy(v) == v # None /\ v # ""

response_formatter_keep_hint(flow, result, status, error_type) ==
  LET next_action ==
        IF flow # <<>> THEN get_next_action(flow, flow[Len(flow)]) ELSE None
  IN  IF status = "error"
      THEN [result |-> result, status |-> status, error_type |-> error_type,
            next_action |-> next_action]
      ELSE [result |-> result, status |-> status, next_action |-> next_action,
            next_action_info |->
              IF Truthy(next_action) THEN <<"Next execution: ", next_action>>
              ELSE <<"Flow complete">>]

response_formatter_wrong_info(flow, result, status, error_type) ==
  IF status = "error"
  THEN [result |-> result, status |-> status, error_type |-> error_type]
  ELSE LET next_action ==
             IF flow # <<>> THEN get_next_action(flow, flow[Len(flow)]) ELSE None
       IN  [result |-> result, status |-> status, next_action |-> next_action,
            next_action_info |->
              IF flow # <<>> THEN <<"Next execution: ", next_action>>
              ELSE <<"Flow complete">>]

response_formatter_from_first(flow, result, status, error_type) ==
  IF status = "error"
  THEN [result |-> result, status |-> status, error_type |-> error_type]
  ELSE LET next_action ==
             IF flow # <<>> THEN get_next_action(flow, flow[1]) ELSE None
       IN  [result |-> result, status |-> status, next_action |-> next_action,
            next_action_info |->
              IF Truthy(next_action) THEN <<"Next execution: ", next_action>>
              ELSE <<"Flow complete">>]

response_formatter(flow, result, status, error_type) ==
  IF status = "error"
  THEN [result |-> result, status |-> status, error_type |-> error_type]
  ELSE LET next_action ==
             IF flow # <<>> THEN get_next_action(flow, flow[Len(flow)]) ELSE None
       IN  [result |-> result, status |-> status, next_action |-> next_action,
            next_action_info |->
              IF Truthy(next_action) THEN <<"Next execution: ", next_action>>
              ELSE <<"Flow complete">>]

\* Is the value an Envelope (a dict with a status key)?
IsEnvelope(v) == "status" \in DOMAIN v

\* -------------------------------------------------------- Action Registrar
action_setter_front(m, name, ok, flow, table, mtools) ==
  LET flow1 == <<name>> \o flow
  IN  IF ok
      THEN [action_flow |-> flow1,
            table       |-> [table EXCEPT ![name] = m],
            mcp_tools   |-> mtools \cup {name},
            raised      |-> FALSE]
      ELSE [action_flow |-> flow1,
            table       |-> table,
            mcp_tools   |-> mtools,
            raised      |-> TRUE]

\* action_setter(func) on manager m.  flow and mtools are m's action_flow
\* and mcp_tools, table is the transport's tool table (name -> the manager
\* whose wrapper is published under the name).  ok says whether schema
\* derivation and Tool construction went through; the name is appended
\* before either is attempted.
action_setter(m, name, ok, flow, table, mtools) ==
  LET flow1 == Append(flow, name)
  IN  IF ok
      THEN [action_flow |-> flow1,
            table       |-> [table EXCEPT ![name] = m],
            mcp_tools   |-> mtools \cup {name},
            raised      |-> FALSE]
      ELSE [action_flow |-> flow1,
            table       |-> table,
            mcp_tools   |-> mtools,
            raised      |-> TRUE]

\* ------------------------------------------------------------- CAD engine
\* Item types the board knows (the keys of BOARDITEM_TYPE_CONFIGS, named
\* here as the docstrings name them) and the type strings a caller may
\* pass; "bogus" is not a key.
ItemTypes == {"footprint", "track"}
TypeArgs  == ItemTypes \cup {"bogus"}

\* The types callers ask create_item_step_3 for (its code does not branch
\* on the type beyond the lookups).
CreateTypeArgs == {"footprint", "bogus"}

\* Identifiers: the items of the initial board and the identifiers the
\* engine hands out for created items.  Callers of Spec pass the
\* identifiers of the initial items; one of them names no item of the
\* other type.  Callers of SpecEdit and SpecMove also pass an identifier
\* that names no item at all.
InitialIds == {"A", "B"}
NewIdSeq   == <<"N1", "N2", "N3">>
NewIds     == {NewIdSeq[i] : i \in 1..MaxCreated}
ItemIds    == InitialIds \cup NewIds
IdArgs     == InitialIds

\* Fields of an item's protobuf message (descriptor.fields), by item type:
\* position, start and end are Vector2 messages, orientation is an Angle
\* message, layer is a scalar (an enum number).
FieldsOf(t) ==
  IF t = "track" THEN {"start", "end", "layer"}
  ELSE {"position", "orientation", "layer"}

IsMessageField(f) == f \in {"position", "orientation", "start", "end"}

\* The fields of the message a message-typed field holds.
NestedFields(f) ==
  IF f = "orientation" THEN {"value_degrees"} ELSE {"x_nm", "y_nm"}

Vec(x, y) == [x_nm |-> x, y_nm |-> y]
Deg(d) == [value_degrees |-> d]

\* The board's items when the server starts: footprint A, track B.
InitialProto(id) ==
  IF id = "A"
  THEN [position |-> Vec(10, 10), orientation |-> Deg(0), layer |-> 1]
  ELSE [start |-> Vec(12, 12), end |-> Vec(13, 12), layer |-> 1]

\* The message the engine stores for an item created from well-typed args.
NewProto(t) ==
  IF t = "track"
  THEN [start |-> Vec(12, 12), end |-> Vec(13, 12), layer |-> 1]
  ELSE [position |-> Vec(10, 10), orientation |-> Deg(0), layer |-> 1]

\* args of edit_item_step_3 and of move_item_step_3 that leave the item as
\* it is: the empty mapping, a field given the value it has, a zero delta.
EditArgs == {<<>>, [position |-> Vec(10, 10)], [layer |-> 1]}

MoveArgs == {<<>>, [xy_nm |-> <<0, 0>>], [angle |-> 0], [start |-> <<0, 0>>]}

\* item_ids of remove_item_step_1.
RemoveArgs == {<<"A", "B">>, <<"B">>}

\* args of create_item_step_3, by what convert_to_object makes of them.
CreateArgs == {"well_typed", "ill_typed"}

\* The engine's behaviour during one invocation: its failAt-th call of the
\* invocation raises cls (0: no call fails).  Every engine fault ends the
\* handler, so at most one call fails per invocation.
EngineRuns(n) == {[failAt |-> 0, cls |-> "ApiError"]}
                 \cup [failAt : 1..n, cls : EngineErrors]

Outcome(eng, k) == IF eng.failAt = k THEN eng.cls ELSE "ok"

\* One entry of the record of engine calls made by an invocation.
Call(op, arg, outcome) == [op |-> op, arg |-> arg, outcome |-> outcome]

\* get_object_type / get_proto_class / get_wrapper_class: lookups by type.
KnownType(t) == t \in ItemTypes

KeyError(k) == Exc("KeyError", <<"'", k, "'">>)

AttributeError(owner, attr) ==
  Exc("AttributeError", <<"'", owner, "' object has no attribute '", attr, "'">>)

\* board.get_items(get_object_type(t)) keyed by id: the ids of type t.
ItemsOfType(its, t) == {id \in ItemIds : its[id] = t}

\* --------------------------------------------------------- result of a body
\* What running a step body leaves behind: whether it raised, the value it
\* returned or the exception it raised, the manager's item_type_cache and
\* board afterwards, the board contents, and the engine calls it made.
Return(val, cache, brd, its, lg) ==
  [raised |-> FALSE, val |-> val, cache |-> cache, board |-> brd,
   items |-> its, log |-> lg]

Raise(exc, cache, brd, its, lg) ==
  [raised |-> TRUE, val |-> exc, cache |-> cache, board |-> brd,
   items |-> its, log |-> lg]

\* initialize_board: KiCad().get_board() as the k-th engine call.
InitBoardExc(eng, k) ==
  Exc("RuntimeError",
      <<"Failed to initialize the board: ">> \o EngineMsg(Outcome(eng, k)))

\* A Python str as a value that can sit in an Envelope's result field.
Text(s) == [p |-> "str", v |-> s]

\* A payload: what a step computes for the caller.
Payload(kind, v) == [p |-> kind, v |-> v]

\* ------------------------------------------------------------- step bodies
\* Every body takes the manager's Action Sequence (flow), its
\* item_type_cache and board (either may be "unset": no such attribute),
\* the board contents, the caller's arguments, the engine's behaviour and
\* the number k of the next engine call of the invocation.

item_step_1_caching(flow, cache, brd, its) ==
  Return(response_formatter(flow, Payload("item_types", ItemTypes), "success", None),
         "footprint", brd, its, <<>>)

\* create_item_step_1 / edit_item_step_1 / move_item_step_1
item_step_1(flow, cache, brd, its) ==
  Return(response_formatter(flow, Payload("item_types", ItemTypes), "success", None),
         cache, brd, its, <<>>)

create_item_step_2(flow, cache, brd, its, item_type) ==
  IF ~KnownType(item_type)
  THEN Raise(KeyError(item_type), cache, brd, its, <<>>)
  ELSE Return(response_formatter(flow, Payload("config", item_type), "success", None),
              cache, brd, its, <<>>)

create_item_step_3_raw(flow, cache, brd, its, item_type, args, eng, k) ==
  LET b   == Outcome(eng, k)
      c   == Outcome(eng, k + 1)
      lg1 == <<Call("get_board", None, b)>>
      lg2 == lg1 \o <<Call("create_items", item_type, c)>>
      new == CHOOSE id \in NewIds : its[id] = "absent"
  IN  IF b # "ok" THEN Raise(InitBoardExc(eng, k), cache, brd, its, lg1)
      ELSE IF ~KnownType(item_type)
           THEN Raise(KeyError(item_type), cache, "handle", its, lg1)
      ELSE IF args = "ill_typed"
           THEN Raise(Exc("TypeError", <<"bad field value">>), cache, "handle", its, lg1)
      ELSE IF c # "ok"
           THEN Raise(EngineExc(c), cache, "handle", its, lg2)
      ELSE Return(response_formatter(flow, Payload("created", new), "success", None),
                  cache, "handle", [its EXCEPT ![new] = item_type], lg2)

create_item_step_3(flow, cache, brd, its, item_type, args, eng, k) ==
  LET b   == Outcome(eng, k)
      c   == Outcome(eng, k + 1)
      lg1 == <<Call("get_board", None, b)>>
      lg2 == lg1 \o <<Call("create_items", item_type, c)>>
      new == CHOOSE id \in NewIds : its[id] = "absent"
  IN  IF b # "ok" THEN Raise(InitBoardExc(eng, k), cache, brd, its, lg1)
      ELSE IF ~KnownType(item_type)
           THEN Raise(KeyError(item_type), cache, "handle", its, lg1)
      ELSE IF args = "ill_typed"
           THEN Raise(Exc("TypeError", <<"bad field value">>), cache, "handle", its, lg1)
      ELSE IF c # "ok"
           THEN Raise(Exc("RuntimeError",
                          <<"Failed to create the item: ">> \o Str(EngineExc(c))),
                      cache, "handle", its, lg2)
      ELSE Return(response_formatter(flow, Payload("created", new), "success", None),
                  cache, "handle", [its EXCEPT ![new] = item_type], lg2)

\* get_item_list_config(board, item_type)
edit_item_step_2(flow, cache, brd, its, item_type, eng, k) ==
  LET g  == Outcome(eng, k)
      lg == <<Call("get_items", item_type, g)>>
  IN  IF ~KnownType(item_type)
      THEN Raise(KeyError(item_type), item_type, brd, its, <<>>)
      ELSE IF g # "ok" THEN Raise(EngineExc(g), item_type, brd, its, lg)
      ELSE Return(response_formatter(flow,
                    Payload("item_list_config",
                            [args |-> item_type, item_list |-> ItemsOfType(its, item_type)]),
                    "success", None),
                  item_type, brd, its, lg)

move_item_step_2_cache_last(flow, cache, brd, its, item_type, eng, k) ==
  LET g  == Outcome(eng, k)
      lg == <<Call("get_items", item_type, g)>>
  IN  IF ~KnownType(item_type)
      THEN Raise(KeyError(item_type), cache, brd, its, <<>>)
      ELSE IF g # "ok" THEN Raise(EngineExc(g), cache, brd, its, lg)
      ELSE Return(response_formatter(flow,
                    Payload("item_list", ItemsOfType(its, item_type)),
                    "success", None),
                  item_type, brd, its, lg)

\* move_item_step_2(item_type): the cache is assigned first, then the items
\* of that type are enumerated.
move_item_step_2(flow, cache, brd, its, item_type, eng, k) ==
  LET g  == Outcome(eng, k)
      lg == <<Call("get_items", item_type, g)>>
  IN  IF ~KnownType(item_type)
      THEN Raise(KeyError(item_type), item_type, brd, its, <<>>)
      ELSE IF g # "ok" THEN Raise(EngineExc(g), item_type, brd, its, lg)
      ELSE Return(response_formatter(flow,
                    Payload("item_list", ItemsOfType(its, item_type)),
                    "success", None),
                  item_type, brd, its, lg)

get_items_by_id_any_type(its, item_type, id) ==
  IF its[id] # "absent" THEN id ELSE None

\* get_items_by_id(board, item_type, id): the item of that type with that
\* id, or None (dict.get).
get_items_by_id(its, item_type, id) ==
  IF id \in ItemsOfType(its, item_type) THEN id ELSE None

\* convert_to_object(descriptor, args): the message built from the entries
\* of args that name a field of the descriptor; a message-typed entry is
\* converted in turn, and a field of it that its mapping leaves out reads
\* as 0.
convert_to_object(fields, args) ==
  [f \in (DOMAIN args \cap fields) |->
     IF IsMessageField(f)
     THEN [g \in NestedFields(f) |-> IF g \in DOMAIN args[f] THEN args[f][g] ELSE 0]
     ELSE args[f]]

\* new_class.ListFields(): the fields that are set.  A message-typed field
\* is set once written; a scalar one only while it differs from 0.
ListFields(msg) == {f \in DOMAIN msg : IsMessageField(f) \/ msg[f] # 0}

edit_item_step_3(flow, cache, brd, its, ps, item_id, args, eng, k) ==
  LET b         == Outcome(eng, k)
      g         == Outcome(eng, k + 1)
      u         == Outcome(eng, k + 2)
      target    == get_items_by_id(its, cache, item_id)
      new_class == convert_to_object(FieldsOf(cache), args)
      edited    == [f \in DOMAIN ps[target] |->
                     IF f \in ListFields(new_class) THEN new_class[f]
                     ELSE ps[target][f]]
      lg1       == <<Call("get_board", None, b)>>
      lg2       == lg1 \o <<Call("get_items", cache, g)>>
      lg3       == lg2 \o <<Call("update_items",
                                 [id |-> item_id, proto |-> edited], u)>>
  IN  IF b # "ok" THEN Raise(InitBoardExc(eng, k), cache, brd, its, lg1)
      ELSE IF cache = "unset"
           THEN Raise(AttributeError("EditItemFlowManager", "item_type_cache"),
                      cache, "handle", its, lg1)
      ELSE IF ~KnownType(cache)
           THEN Raise(KeyError(cache), cache, "handle", its, lg1)
      ELSE IF g # "ok" THEN Raise(EngineExc(g), cache, "handle", its, lg2)
      ELSE IF target = None
           THEN Raise(AttributeError("NoneType", "proto"), cache, "handle", its, lg2)
      ELSE IF \E f \in ListFields(new_class) : ~IsMessageField(f)
           THEN Raise(AttributeError("int", "CopyFrom"), cache, "handle", its, lg2)
      ELSE IF u # "ok"
           THEN Raise(Exc("RuntimeError",
                          <<"Failed to move the item: ">> \o Str(EngineExc(u))),
                      cache, "handle", its, lg3)
      ELSE Return(response_formatter(flow, Payload("updated", item_id), "success", None),
                  cache, "handle", its, lg3)

\* board.update_items(None) fails in the client, before anything is sent.
NoneNotIterable == Exc("TypeError", <<"'NoneType' object is not iterable">>)

AddXY_absolute(v, d) == Vec(d[1], d[2])

\* v += Vector2.from_xy(x, y)
AddXY(v, d) == Vec(v.x_nm + d[1], v.y_nm + d[2])

\* a += Angle.from_degrees(angle)
AddDegrees(a, d) == Deg(a.value_degrees + d)

move_item_step_3(flow, cache, brd, its, ps, item_id, args, eng, k) ==
  LET b       == Outcome(eng, k)
      g       == Outcome(eng, k + 1)
      u       == Outcome(eng, k + 2)
      target  == get_items_by_id(its, cache, item_id)
      isTrack == target # None /\ its[target] = "track"
      has(key) == key \in DOMAIN args
      moved   == IF isTrack
                 THEN [ps[target] EXCEPT
                         !.start = IF has("start") THEN AddXY(@, args.start) ELSE @,
                         !.end   = IF has("end") THEN AddXY(@, args.end) ELSE @]
                 ELSE [ps[target] EXCEPT
                         !.position    = IF has("xy_nm") THEN AddXY(@, args.xy_nm) ELSE @,
                         !.orientation = IF has("angle") THEN AddDegrees(@, args.angle)
                                         ELSE @]
      lg1     == <<Call("get_board", None, b)>>
      lg2     == lg1 \o <<Call("get_items", cache, g)>>
      lg3     == lg2 \o <<IF target = None
                           THEN Call("update_items", None, "TypeError")
                           ELSE Call("update_items",
                                     [id |-> item_id, proto |-> moved], u)>>
  IN  IF b # "ok" THEN Raise(InitBoardExc(eng, k), cache, brd, its, lg1)
      ELSE IF cache = "unset"
           THEN Raise(AttributeError("MoveItemFlowManager", "item_type_cache"),
                      cache, "handle", its, lg1)
      ELSE IF ~KnownType(cache)
           THEN Raise(KeyError(cache), cache, "handle", its, lg1)
      ELSE IF g # "ok" THEN Raise(EngineExc(g), cache, "handle", its, lg2)
      ELSE IF target = None /\ has("xy_nm")
           THEN Raise(AttributeError("NoneType", "position"), cache, "handle", its, lg2)
      ELSE IF target = None /\ has("angle")
           THEN Raise(AttributeError("NoneType", "orientation"), cache, "handle", its, lg2)
      ELSE IF target = None
           THEN Raise(Exc("RuntimeError",
                          <<"Failed to move the item: ">> \o Str(NoneNotIterable)),
                      cache, "handle", its, lg3)
      ELSE IF u # "ok"
           THEN Raise(Exc("RuntimeError",
                          <<"Failed to move the item: ">> \o Str(EngineExc(u))),
                      cache, "handle", its, lg3)
      ELSE Return(response_formatter(flow, Payload("updated", item_id), "success", None),
                  cache, "handle", its, lg3)

\* KIID(): an identifier object whose value is the given string.
KIID(id) == [value |-> id]

remove_item_step_1(flow, cache, brd, its, item_ids, eng, k) ==
  LET r        == Outcome(eng, k)
      kiid_ids == [i \in 1..Len(item_ids) |-> KIID(item_ids[i])]
      gone     == {item_ids[i] : i \in 1..Len(item_ids)}
      lg       == <<Call("remove_items_by_id", kiid_ids, r)>>
  IN  IF "_initialize_board" \notin ClassAttrs
      THEN Raise(AttributeError("RemoveItemFlowManager", "_initialize_board"),
                 cache, brd, its, <<>>)
      ELSE IF r # "ok" THEN Raise(EngineExc(r), cache, brd, its, lg)
      ELSE Return(response_formatter(flow, Payload("removed", kiid_ids), "success", None),
                  cache, brd,
                  [id \in ItemIds |-> IF id \in gone THEN "absent" ELSE its[id]], lg)

\* pcb_converter.pcb_to_jpg_via_svg is the k-th outside call; the body
\* returns the image itself, not an Envelope.
verify_pcb_step_1(flow, cache, brd, its, layers, eng, k) ==
  LET c  == Outcome(eng, k)
      lg == <<Call("pcb_to_jpg_via_svg", layers, c)>>
  IN  IF c # "ok"
      THEN Raise(Exc("Exception", <<"conversion failed">>), cache, brd, its, lg)
      ELSE Return(Payload("image", layers), cache, brd, its, lg)

\* BOARDITEM_TYPE_CONFIGS.keys(), in the order the loop visits them.
ConfiguredTypes == <<"footprint", "track">>

\* The message of the fault get_items raised, as str(e) gives it.
NotYetImplemented(cls) == <<"Not yet implemented, ">> \o Str(EngineExc(cls))

get_board_status_abort(brd, its, b, outs) ==
  LET n  == Len(ConfiguredTypes)
      lg == [i \in 1..n |-> Call("get_items", ConfiguredTypes[i], outs[ConfiguredTypes[i]])]
      bad == {i \in 1..n : outs[ConfiguredTypes[i]] # "ok"}
      first == CHOOSE i \in bad : \A j \in bad : i <= j
  IN  IF b # "ok"
      THEN Raise(EngineExc(b), None, brd, its, <<Call("get_board", None, b)>>)
      ELSE IF bad # {}
           THEN Raise(EngineExc(outs[ConfiguredTypes[first]]), None, "handle", its,
                      <<Call("get_board", None, b)>> \o SubSeq(lg, 1, first))
      ELSE Return([t \in ItemTypes |-> Payload("item_list", ItemsOfType(its, t))],
                  None, "handle", its, <<Call("get_board", None, b)>> \o lg)

\* BoardAnalyzer.get_board_status(): b is the outcome of fetching the
\* board, outs[t] the outcome of board.get_items for type t.  The fetch is
\* outside the try, each enumeration inside its own.
get_board_status(brd, its, b, outs) ==
  LET n  == Len(ConfiguredTypes)
      lg == [i \in 1..n |-> Call("get_items", ConfiguredTypes[i], outs[ConfiguredTypes[i]])]
  IN  IF b # "ok"
      THEN Raise(EngineExc(b), None, brd, its, <<Call("get_board", None, b)>>)
      ELSE Return([t \in ItemTypes |->
                     IF outs[t] # "ok" THEN Text(NotYetImplemented(outs[t]))
                     ELSE Payload("item_list", ItemsOfType(its, t))],
                  None, "handle", its, <<Call("get_board", None, b)>> \o lg)

\* A step body as action_setter sees it: any callable.  args says what it
\* does: return a value or raise an exception.
any_step(flow, cache, brd, its, args) ==
  IF args.does = "raise"
  THEN Raise(args.exc, cache, brd, its, <<>>)
  ELSE Return(args.val, cache, brd, its, <<>>)

\* ------------------------------------------------------------------- state
VARIABLES
  action_flow,      \* manager -> its Action Sequence (self.action_flow)
  mcp_tools,        \* manager -> names in its self.mcp_tools dict
  tools,            \* the transport's tool table: name -> publishing manager, or None
  item_type_cache,  \* manager -> self.item_type_cache, "unset" while there is no such attribute
  board,            \* manager -> self.board, "unset" while there is no such attribute
  items,            \* the engine's board: item id -> its type, or "absent"
  protos,           \* the engine's board: item id -> its field values, or None
  phase,            \* registrar -> "pending", "done" or "aborted"
  call,             \* the invocation (or direct method call) made last
  ret,              \* what it gave back: an Envelope, a raised exception, a value
  log               \* the engine calls it made, in order

vars == <<action_flow, mcp_tools, tools, item_type_cache, board, items,
          protos, phase, call, ret, log>>

NoCall == [tool |-> None]
NoRet  == [kind |-> "none"]

Init ==
  /\ action_flow = [m \in Managers |-> <<>>]
  /\ mcp_tools = [m \in Managers |-> {}]
  /\ tools = [n \in ToolNames |-> None]
  /\ item_type_cache = [m \in Managers |-> "unset"]
  /\ board = [m \in BoardHolders |-> "unset"]
  /\ items = [id \in ItemIds |->
               IF id = "A" THEN "footprint" ELSE IF id = "B" THEN "track" ELSE "absent"]
  /\ protos = [id \in ItemIds |-> IF id \in InitialIds THEN InitialProto(id) ELSE None]
  /\ phase = [r \in {"manipulate", "verify"} |-> "pending"]
  /\ call = NoCall
  /\ ret = NoRet
  /\ log = <<>>

\* ------------------------------------------------------------ registration
\* The action_setter calls regs[i..] of one register_tools call, the
\* failAt-th of which fails (0: none does).  A failing action_setter raises
\* RuntimeError out of the constructor and out of register_tools, so the
\* calls after it are not made.
RECURSIVE register_from(_, _, _, _)
register_from(regs, i, failAt, st) ==
  IF i > Len(regs) \/ st.raised THEN st
  ELSE LET m == regs[i][1]
           r == action_setter(m, regs[i][2], i # failAt,
                              st.action_flow[m], st.table, st.mcp_tools[m])
       IN  register_from(regs, i + 1, failAt,
             [action_flow |-> [st.action_flow EXCEPT ![m] = r.action_flow],
              table       |-> r.table,
              mcp_tools   |-> [st.mcp_tools EXCEPT ![m] = r.mcp_tools],
              raised      |-> r.raised])

register_tools(who, regs) ==
  /\ phase[who] = "pending"
  /\ \E failAt \in 0..Len(regs) :
       LET st == register_from(regs, 1, failAt,
                   [action_flow |-> action_flow, table |-> tools,
                    mcp_tools |-> mcp_tools, raised |-> FALSE])
       IN  /\ action_flow' = st.action_flow
           /\ tools' = st.table
           /\ mcp_tools' = st.mcp_tools
           /\ phase' = [phase EXCEPT ![who] = IF st.raised THEN "aborted" ELSE "done"]
           /\ call' = [tool |-> "register_tools", who |-> who, failAt |-> failAt]
           /\ ret' = IF st.raised
                     THEN [kind |-> "raised",
                           exc |-> Exc("RuntimeError",
                                       <<"Failed to register tool ", regs[failAt][2]>>)]
                     ELSE [kind |-> "value", val |-> None]
  /\ log' = <<>>
  /\ UNCHANGED <<item_type_cache, board, items, protos>>

ManipulationTools_register_tools == register_tools("manipulate", ManipulationRegs)

VerifyTools_register_tools == register_tools("verify", VerifyRegs)

\* ----------------------------------------------------------------- wrapper
\* The body published under name, run on manager state (flow, cache, brd).
Body(name, args, flow, cache, brd, its, ps, eng, k) ==
  CASE name \in {"create_item_step_1", "edit_item_step_1", "move_item_step_1"} ->
         item_step_1(flow, cache, brd, its)
    [] name = "create_item_step_2" ->
         create_item_step_2(flow, cache, brd, its, args.item_type)
    [] name = "create_item_step_3" ->
         create_item_step_3(flow, cache, brd, its, args.item_type, args.args, eng, k)
    [] name = "edit_item_step_2" ->
         edit_item_step_2(flow, cache, brd, its, args.item_type, eng, k)
    [] name = "edit_item_step_3" ->
         edit_item_step_3(flow, cache, brd, its, ps, args.item_id, args.args, eng, k)
    [] name = "move_item_step_2" ->
         move_item_step_2(flow, cache, brd, its, args.item_type, eng, k)
    [] name = "move_item_step_3" ->
         move_item_step_3(flow, cache, brd, its, ps, args.item_id, args.args, eng, k)
    [] name = "remove_item_step_1" ->
         remove_item_step_1(flow, cache, brd, its, args.item_ids, eng, k)
    [] name = "verify_pcb_step_1" ->
         verify_pcb_step_1(flow, cache, brd, its, args.layers, eng, k)
    [] OTHER ->
         any_step(flow, cache, brd, its, args)

initialize_func_body_anyway(name, args, flow, cache, brd, its, ps, eng) ==
  LET b   == Outcome(eng, 1)
      lg1 == <<Call("get_board", None, b)>>
      r   == Body(name, args, flow, cache, brd, its, ps, eng, 2)
  IN  [escaped |-> FALSE,
       out |-> IF r.raised
               THEN response_formatter(flow, Text(Str(r.val)), "error", r.val.cls)
               ELSE response_formatter(flow, r.val, "success", None),
       cache |-> r.cache, board |-> r.board, items |-> r.items,
       log |-> lg1 \o r.log]

\* initialize_func(*args): initialize_board() outside the try, then the
\* body inside it.  escaped says whether an exception left the wrapper.
initialize_func(name, args, flow, cache, brd, its, ps, eng) ==
  LET b   == Outcome(eng, 1)
      lg1 == <<Call("get_board", None, b)>>
      r   == Body(name, args, flow, cache, "handle", its, ps, eng, 2)
  IN  IF b # "ok"
      THEN [escaped |-> TRUE, out |-> InitBoardExc(eng, 1),
            cache |-> cache, board |-> brd, items |-> its, log |-> lg1]
      ELSE [escaped |-> FALSE,
            out |-> IF r.raised
                    THEN response_formatter(flow, Text(Str(r.val)), "error", r.val.cls)
                    ELSE response_formatter(flow, r.val, "success", None),
            cache |-> r.cache, board |-> r.board, items |-> r.items,
            log |-> lg1 \o r.log]

\* The engine's items after the calls of one invocation: an item it
\* accepted in update_items replaces the one with that id, a created item
\* holds what its args built, a removed one is gone.
engine_apply(ps, its, its1, lg) ==
  [id \in ItemIds |->
     IF its1[id] = "absent" THEN None
     ELSE IF its[id] = "absent" THEN NewProto(its1[id])
     ELSE IF \E i \in 1..Len(lg) : /\ lg[i].op = "update_items"
                                  /\ lg[i].outcome = "ok"
                                  /\ lg[i].arg.id = id
          THEN LET i == CHOOSE i \in 1..Len(lg) : /\ lg[i].op = "update_items"
                                                /\ lg[i].outcome = "ok"
                                                /\ lg[i].arg.id = id
               IN  lg[i].arg.proto
          ELSE ps[id]]

\* The transport calls the tool registered under name with args.  It
\* serves calls one at a time, and only once both register_tools calls have
\* returned: a RuntimeError out of either ends start-up.  An engine run
\* whose failing call the invocation never reaches is the run without a
\* fault, and is taken as that one.
Invoke(name, args, eng) ==
  /\ \A r \in DOMAIN phase : phase[r] = "done"
  /\ tools[name] # None
  /\ LET m == tools[name]
         w == initialize_func(name, args, action_flow[m], item_type_cache[m],
                              board[m], items, protos, eng)
     IN  /\ eng.failAt <= Len(w.log)
         /\ item_type_cache' = [item_type_cache EXCEPT ![m] = w.cache]
         /\ board' = [board EXCEPT ![m] = w.board]
         /\ items' = w.items
         /\ protos' = engine_apply(protos, items, w.items, w.log)
         /\ log' = w.log
         /\ call' = [tool |-> name, m |-> m, args |-> args]
         /\ ret' = IF w.escaped THEN [kind |-> "raised", exc |-> w.out]
                   ELSE [kind |-> "envelope", env |-> w.out]
  /\ UNCHANGED <<action_flow, mcp_tools, tools, phase>>

NoArgs == [none |-> None]

InvokeStep1 ==
  \E name \in {"create_item_step_1", "edit_item_step_1", "move_item_step_1"},
     eng \in EngineRuns(1) :
    Invoke(name, NoArgs, eng)

InvokeCreateStep2 ==
  \E t \in TypeArgs, eng \in EngineRuns(1) :
    Invoke("create_item_step_2", [item_type |-> t], eng)

InvokeCreateStep3 ==
  \E t \in CreateTypeArgs, a \in CreateArgs, eng \in EngineRuns(3) :
    /\ (KnownType(t) /\ a = "well_typed" /\ eng.failAt \notin 1..3)
         => \E id \in NewIds : items[id] = "absent"
    /\ Invoke("create_item_step_3", [item_type |-> t, args |-> a], eng)

InvokeEditStep2 ==
  \E t \in TypeArgs, eng \in EngineRuns(2) :
    Invoke("edit_item_step_2", [item_type |-> t], eng)

InvokeEditStep3 ==
  \E id \in IdArgs, a \in EditArgs, eng \in EngineRuns(4) :
    Invoke("edit_item_step_3", [item_id |-> id, args |-> a], eng)

InvokeMoveStep2 ==
  \E t \in TypeArgs, eng \in EngineRuns(2) :
    Invoke("move_item_step_2", [item_type |-> t], eng)

InvokeMoveStep3 ==
  \E id \in IdArgs, a \in MoveArgs, eng \in EngineRuns(4) :
    Invoke("move_item_step_3", [item_id |-> id, args |-> a], eng)

InvokeRemoveStep1 ==
  \E ids \in RemoveArgs, eng \in EngineRuns(1) :
    Invoke("remove_item_step_1", [item_ids |-> ids], eng)

InvokeVerifyStep1 ==
  \E eng \in EngineRuns(2) :
    Invoke("verify_pcb_step_1", [layers |-> <<"F.Cu">>], eng)

Next ==
  \/ ManipulationTools_register_tools
  \/ VerifyTools_register_tools
  \/ InvokeStep1
  \/ InvokeCreateStep2
  \/ InvokeCreateStep3
  \/ InvokeEditStep2
  \/ InvokeEditStep3
  \/ InvokeMoveStep2
  \/ InvokeMoveStep3
  \/ InvokeRemoveStep1
  \/ InvokeVerifyStep1

Spec == Init /\ [][Next]_vars

\* ------------------------------------------------- the class on its own
\* One ActionFlowManager ("lib") on a transport of its own.  Its steps are
\* arbitrary callables named from LibNames; the same callable, or two with
\* one name, may be handed to action_setter more than once.
LibNames == {"a", "b", "c"}
Unregistered == "x"

LibBodies ==
  {[does |-> "return", val |-> Payload("data", "v")],
   [does |-> "raise", exc |-> Exc("ValueError", <<"boom">>)]}

InitLib ==
  /\ action_flow = [m \in {"lib"} |-> <<>>]
  /\ mcp_tools = [m \in {"lib"} |-> {}]
  /\ tools = [n \in LibNames |-> None]
  /\ item_type_cache = [m \in {"lib"} |-> "unset"]
  /\ board = [m \in {"lib"} |-> "unset"]
  /\ items = [id \in ItemIds |->
               IF id = "A" THEN "footprint" ELSE IF id = "B" THEN "track" ELSE "absent"]
  /\ protos = [id \in ItemIds |-> IF id \in InitialIds THEN InitialProto(id) ELSE None]
  /\ phase = [r \in {"lib"} |-> "done"]
  /\ call = NoCall
  /\ ret = NoRet
  /\ log = <<>>

\* lib.action_setter(f) for a callable named name.
LibActionSetter ==
  \E name \in LibNames, ok \in BOOLEAN :
    /\ Len(action_flow["lib"]) < MaxFlow
    /\ LET r == action_setter("lib", name, ok, action_flow["lib"], tools,
                              mcp_tools["lib"])
       IN  /\ action_flow' = [action_flow EXCEPT !["lib"] = r.action_flow]
           /\ tools' = r.table
           /\ mcp_tools' = [mcp_tools EXCEPT !["lib"] = r.mcp_tools]
           /\ ret' = IF r.raised
                     THEN [kind |-> "raised",
                           exc |-> Exc("RuntimeError",
                                       <<"Failed to register tool ", name>>)]
                     ELSE [kind |-> "value", val |-> None]
    /\ call' = [tool |-> "action_setter", name |-> name, ok |-> ok]
    /\ log' = <<>>
    /\ UNCHANGED <<item_type_cache, board, items, protos, phase>>

\* lib.get_next_action(n)
LibGetNextAction ==
  \E n \in LibNames \cup {Unregistered} :
    /\ call' = [tool |-> "get_next_action", name |-> n]
    /\ ret' = [kind |-> "value", val |-> get_next_action(action_flow["lib"], n)]
    /\ log' = <<>>
    /\ UNCHANGED <<action_flow, mcp_tools, tools, item_type_cache, board, items,
                   protos, phase>>

\* lib.response_formatter(result, status, error_type)
LibResponseFormatter ==
  \E status \in {"success", "error"}, error_type \in {None, "ValueError"} :
    /\ call' = [tool |-> "response_formatter", status |-> status,
                error_type |-> error_type]
    /\ ret' = [kind |-> "envelope",
               env |-> response_formatter(action_flow["lib"], Payload("data", "v"),
                                          status, error_type)]
    /\ log' = <<>>
    /\ UNCHANGED <<action_flow, mcp_tools, tools, item_type_cache, board, items,
                   protos, phase>>

\* The transport calls a published wrapper of lib.
LibInvoke ==
  \E name \in LibNames, body \in LibBodies, eng \in EngineRuns(1) :
    Invoke(name, body, eng)

NextLib ==
  \/ LibActionSetter
  \/ LibGetNextAction
  \/ LibResponseFormatter
  \/ LibInvoke

SpecLib == InitLib /\ [][NextLib]_vars

\* ------------------------------------------------ editing and moving items
\* The edit flow (SpecEdit) and the move flow (SpecMove) on a server whose
\* start-up went through: both register_tools calls have returned.  Callers
\* pass field values and deltas that change the items.
Registered ==
  register_from(ManipulationRegs \o VerifyRegs, 1, 0,
                [action_flow |-> [m \in Managers |-> <<>>],
                 table       |-> [n \in ToolNames |-> None],
                 mcp_tools   |-> [m \in Managers |-> {}],
                 raised      |-> FALSE])

InitItems ==
  /\ action_flow = Registered.action_flow
  /\ mcp_tools = Registered.mcp_tools
  /\ tools = Registered.table
  /\ item_type_cache = [m \in Managers |-> "unset"]
  /\ board = [m \in BoardHolders |-> "unset"]
  /\ items = [id \in ItemIds |->
               IF id = "A" THEN "footprint" ELSE IF id = "B" THEN "track" ELSE "absent"]
  /\ protos = [id \in ItemIds |-> IF id \in InitialIds THEN InitialProto(id) ELSE None]
  /\ phase = [r \in {"manipulate", "verify"} |-> "done"]
  /\ call = NoCall
  /\ ret = NoRet
  /\ log = <<>>

\* args of edit_item_step_3: message-typed fields whole and in part, the
\* scalar field with a non-zero and with a zero value, a field of the other
\* item type, two fields at once.
EditValues ==
  {<<>>,
   [position |-> Vec(5, 6)],
   [position |-> [x_nm |-> 5]],
   [orientation |-> Deg(90)],
   [layer |-> 2],
   [layer |-> 0],
   [start |-> Vec(11, 11)],
   [position |-> Vec(5, 6), layer |-> 0]}

\* args of move_item_step_3.
MoveValues ==
  {<<>>,
   [xy_nm |-> <<3, -2>>],
   [angle |-> 90],
   [xy_nm |-> <<3, -2>>, angle |-> 90],
   [start |-> <<1, 1>>],
   [end |-> <<1, 1>>],
   [start |-> <<1, 1>>, end |-> <<0, 1>>]}

\* The coordinates and angles of an item stay within the explored range.
InRange(p) ==
  /\ \A f \in DOMAIN p \cap {"position", "start", "end"} :
       p[f].x_nm \in 0..MaxCoord /\ p[f].y_nm \in 0..MaxCoord
  /\ "orientation" \in DOMAIN p => p.orientation.value_degrees \in 0..MaxDegrees

ItemsEditStep2 ==
  \E t \in TypeArgs, eng \in EngineRuns(2) :
    Invoke("edit_item_step_2", [item_type |-> t], eng)

ItemsEditStep3 ==
  \E id \in ItemIds, a \in EditValues, eng \in EngineRuns(4) :
    Invoke("edit_item_step_3", [item_id |-> id, args |-> a], eng)

\* The transport calls get_board_status, published by add_tool as it is.
GetBoardStatus ==
  \E b \in {"ok"} \cup EngineErrors, outs \in [ItemTypes -> {"ok"} \cup EngineErrors] :
    LET r == get_board_status(board["analyzer"], items, b, outs)
    IN  /\ board' = [board EXCEPT !["analyzer"] = r.board]
        /\ call' = [tool |-> "get_board_status"]
        /\ ret' = IF r.raised THEN [kind |-> "raised", exc |-> r.val]
                  ELSE [kind |-> "value", val |-> r.val]
        /\ log' = r.log
        /\ UNCHANGED <<action_flow, mcp_tools, tools, item_type_cache, items,
                       protos, phase>>

NextEdit ==
  \/ ItemsEditStep2
  \/ ItemsEditStep3
  \/ GetBoardStatus

SpecEdit == InitItems /\ [][NextEdit]_vars

ItemsMoveStep2 ==
  \E t \in TypeArgs, eng \in EngineRuns(2) :
    Invoke("move_item_step_2", [item_type |-> t], eng)

ItemsMoveStep3 ==
  \E id \in ItemIds, a \in MoveValues, eng \in EngineRuns(4) :
    /\ Invoke("move_item_step_3", [item_id |-> id, args |-> a], eng)
    /\ \A i \in InitialIds : InRange(protos'[i])

NextMove ==
  \/ ItemsMoveStep2
  \/ ItemsMoveStep3

SpecMove == InitItems /\ [][NextMove]_vars

\* The three-step flows without item creation: steps 1 and 2 of every
\* flow and step 3 of the edit and move flows, in any order, on a server
\* whose start-up went through.
NextSteps ==
  \/ InvokeStep1
  \/ InvokeCreateStep2
  \/ InvokeEditStep2
  \/ InvokeEditStep3
  \/ InvokeMoveStep2
  \/ InvokeMoveStep3

SpecSteps == InitItems /\ [][NextSteps]_vars

\* ------------------------------------------ two managers of the same kind
\* Two EditItemFlowManager instances constructed on one transport, in
\* either order, and invocations of the edit tools once both exist.
Instances == {"edit", "edit2"}

\* The action_setter calls of EditItemFlowManager.__init__ on instance m.
InstanceRegs(m) == [i \in 1..Len(Steps("edit")) |-> <<m, Steps("edit")[i]>>]

InitTwo ==
  /\ action_flow = [m \in Instances |-> <<>>]
  /\ mcp_tools = [m \in Instances |-> {}]
  /\ tools = [n \in StepSet("edit") |-> None]
  /\ item_type_cache = [m \in Instances |-> "unset"]
  /\ board = [m \in Instances |-> "unset"]
  /\ items = [id \in ItemIds |->
               IF id = "A" THEN "footprint" ELSE IF id = "B" THEN "track" ELSE "absent"]
  /\ protos = [id \in ItemIds |-> IF id \in InitialIds THEN InitialProto(id) ELSE None]
  /\ phase = [m \in Instances |-> "pending"]
  /\ call = NoCall
  /\ ret = NoRet
  /\ log = <<>>

\* EditItemFlowManager(mcp)
ConstructInstance ==
  \E m \in Instances : register_tools(m, InstanceRegs(m))

TwoInvokeStep1 ==
  \E eng \in EngineRuns(1) : Invoke("edit_item_step_1", NoArgs, eng)

TwoInvokeStep2 ==
  \E t \in TypeArgs, eng \in EngineRuns(2) :
    Invoke("edit_item_step_2", [item_type |-> t], eng)

TwoInvokeStep3 ==
  \E id \in InitialIds, a \in EditValues, eng \in EngineRuns(4) :
    Invoke("edit_item_step_3", [item_id |-> id, args |-> a], eng)

NextTwo ==
  \/ ConstructInstance
  \/ TwoInvokeStep1
  \/ TwoInvokeStep2
  \/ TwoInvokeStep3

SpecTwo == InitTwo /\ [][NextTwo]_vars

\* ================================================================ properties
\* Helpers for stating the properties.
IsToolCall == call.tool \in ToolNames \cup LibNames

FlowOf(name) == CHOOSE m \in Managers : name \in StepSet(m)

PositionOf(name) == Index(Steps(FlowOf(name)), name)

Elems(seq) == {seq[i] : i \in 1..Len(seq)}

Distinct(seq) == \A i, j \in 1..Len(seq) : seq[i] = seq[j] => i = j

HasSuffix(seq, t) ==
  Len(seq) > Len(t) /\ SubSeq(seq, Len(seq) - Len(t) + 1, Len(seq)) = t

\* A manager whose last action_setter call failed: the name was appended
\* but never stored in mcp_tools.
Aborted(m) ==
  action_flow[m] # <<>> /\ action_flow[m][Len(action_flow[m])] \notin mcp_tools[m]

\* C1: every invocation of a published wrapper returns an Envelope whose
\* status is "success" or "error"; no exception leaves the wrapper, also
\* when the engine fails to provide the board at the start.
C1_AlwaysAnEnvelope ==
  IsToolCall => (ret.kind = "envelope" /\ ret.env.status \in {"success", "error"})

\* C2: a successful step 1 (step 2) of the create, edit or move flow
\* reports step 2 (step 3) of that flow as next_action.
C2_NextActionIsNextStep ==
  (/\ call.tool \in ToolNames
   /\ Len(Steps(FlowOf(call.tool))) = 3
   /\ PositionOf(call.tool) \in {1, 2}
   /\ ret.kind = "envelope"
   /\ ret.env.status = "success")
  => ret.env.next_action = Steps(FlowOf(call.tool))[PositionOf(call.tool) + 1]

\* C3: remove_item_step_1 with a non-empty list of identifiers, the board
\* having been fetched, issues exactly one remove_items_by_id call carrying
\* all the identifiers in order, and returns a success Envelope.
C3_OneBulkRemoval ==
  (/\ call.tool = "remove_item_step_1"
   /\ ret.kind = "envelope")
  => (/\ Cardinality({i \in 1..Len(log) : log[i].op = "remove_items_by_id"}) = 1
      /\ \E i \in 1..Len(log) :
           /\ log[i].op = "remove_items_by_id"
           /\ log[i].arg = [j \in 1..Len(call.args.item_ids) |->
                              KIID(call.args.item_ids[j])]
      /\ ret.env.status = "success")

\* C4: when registration of a step fails during construction of a flow
\* manager, the transport's tool table holds none of that manager's steps.
C4_AbortedFlowNotExposed ==
  \A m \in Managers :
    Aborted(m) => \A n \in StepSet(m) : tools[n] = None

\* C5: after any sequence of successful or failing register calls, a
\* manager's Action Sequence holds exactly the names it registered and
\* published, in registration order, none twice.
C5_SequenceIsPublishedSteps ==
  \A m \in Managers :
    /\ Elems(action_flow[m]) = {n \in ToolNames : tools[n] = m}
    /\ Distinct(action_flow[m])
    /\ action_flow[m] = SubSeq(Steps(m), 1, Len(action_flow[m]))

\* C6: an Envelope with status "error", from response_formatter called
\* directly or from a wrapper invocation after any registrations, has
\* exactly the keys result, status and error_type.
C6_ErrorEnvelopeKeys ==
  (ret.kind = "envelope" /\ ret.env.status = "error")
  => DOMAIN ret.env = {"result", "status", "error_type"}

\* C6 witness: a wrapper returns an error Envelope on a manager whose
\* sequence has a successor for its last name, so a lookup would find one.
C6_Witness ==
  /\ call.tool \in LibNames
  /\ ret.kind = "envelope"
  /\ ret.env.status = "error"
  /\ action_flow["lib"] # <<>>
  /\ get_next_action(action_flow["lib"],
                     action_flow["lib"][Len(action_flow["lib"])]) # None

\* C7: on a sequence of distinct names get_next_action returns the element
\* that follows a non-last element, None for the last element and None for
\* a name that is not in the sequence (the empty sequence included), and
\* never raises.
C7_GetNextAction ==
  (call.tool = "get_next_action" /\ Distinct(action_flow["lib"]))
  => LET flow == action_flow["lib"]
         n    == call.name
     IN  /\ ret.kind = "value"
         /\ \A i \in 1..Len(flow) :
              flow[i] = n => ret.val = (IF i < Len(flow) THEN flow[i + 1] ELSE None)
         /\ n \notin Elems(flow) => ret.val = None

\* C7 witness: three distinct names, the query is the first, the answer is
\* the second.
C7_Witness ==
  /\ call.tool = "get_next_action"
  /\ Len(action_flow["lib"]) = 3
  /\ Distinct(action_flow["lib"])
  /\ call.name = action_flow["lib"][1]
  /\ ret.kind = "value"
  /\ ret.val = action_flow["lib"][2]

\* C8: in every success Envelope, next_action_info is
\* "Next execution: <next_action>" exactly when next_action is a name and
\* "Flow complete" exactly when next_action is absent, which it is on an
\* empty sequence.
C8_NextActionInfo ==
  (ret.kind = "envelope" /\ ret.env.status = "success")
  => LET e      == ret.env
         isName == e.next_action # None
     IN  /\ isName <=> e.next_action_info = <<"Next execution: ", e.next_action>>
         /\ ~isName <=> e.next_action_info = <<"Flow complete">>
         /\ action_flow["lib"] = <<>> => ~isName

\* C8 witness: a success Envelope whose next_action is a name.
C8_Witness ==
  /\ ret.kind = "envelope"
  /\ ret.env.status = "success"
  /\ ret.env.next_action \in LibNames
  /\ ret.env.next_action_info = <<"Next execution: ", ret.env.next_action>>

\* The engine call that commits a step 3, when it was made and failed.
CommitFailed ==
  /\ call.tool \in {"create_item_step_3", "edit_item_step_3", "move_item_step_3"}
  /\ log # <<>>
  /\ log[Len(log)].op \in {"create_items", "update_items"}
  /\ log[Len(log)].outcome # "ok"

\* The message of the fault the commit call raised.
CommitFaultMsg ==
  IF log[Len(log)].outcome \in EngineErrors
  THEN EngineMsg(log[Len(log)].outcome)
  ELSE Str(NoneNotIterable)

\* C9: when the engine rejects the create/update call of step 3 of the
\* create, edit or move flow, the invocation returns an error Envelope
\* whose error_type is "RuntimeError", never the engine's exception class,
\* and whose result carries the engine's message.
C9_CommitFailureIsRuntimeError ==
  CommitFailed
  => (/\ ret.kind = "envelope"
      /\ ret.env.status = "error"
      /\ ret.env.error_type = "RuntimeError"
      /\ ret.env.error_type \notin EngineErrors
      /\ HasSuffix(ret.env.result.v, CommitFaultMsg))

\* C9 witness: create_item_step_3 built its item and the engine rejected
\* create_items.
C9_Witness ==
  /\ call.tool = "create_item_step_3"
  /\ CommitFailed
  /\ log[Len(log)].outcome \in EngineErrors
  /\ ret.kind = "envelope"
  /\ ret.env.error_type = "RuntimeError"

\* C10: the result of the Envelope returned by a successful invocation is
\* the step's payload, never itself an Envelope.
C10_ResultIsPayload ==
  (call.tool \in ToolNames /\ ret.kind = "envelope" /\ ret.env.status = "success")
  => ~IsEnvelope(ret.env.result)

\* A value of an argument mapping read as a value of the field it names:
\* a mapping for a message-typed field is the message with those entries.
Supplied(f, v) ==
  IF IsMessageField(f)
  THEN [g \in NestedFields(f) |-> IF g \in DOMAIN v THEN v[g] ELSE 0]
  ELSE v

\* The call made by this step is step 3 of manager m, it names an item of
\* the cached type, and the engine answered every call of the invocation.
Step3Served(m, name) ==
  /\ call'.tool = name
  /\ get_items_by_id(items, item_type_cache[m], call'.args.item_id) # None
  /\ \A i \in 1..Len(log') : log'[i].outcome = "ok"

\* C11: edit_item_step_3 is a sparse update: the item it commits to the
\* engine has, for every field of the item named in the argument mapping,
\* the supplied value, and for every other field the value it had.
C11_SparseUpdate ==
  [][Step3Served("edit", "edit_item_step_3")
     => LET id == call'.args.item_id
            a  == call'.args.args
        IN  /\ log'[Len(log')].op = "update_items"
            /\ \A f \in DOMAIN protos[id] :
                 protos'[id][f] = IF f \in DOMAIN a THEN Supplied(f, a[f])
                                  ELSE protos[id][f]]_vars

C13_StatusToleratesFailures ==
  (call.tool = "get_board_status" /\ \E i \in 1..Len(log) : log[i].op = "get_items")
  => /\ ret.kind = "value"
     /\ DOMAIN ret.val = ItemTypes
     /\ \A i \in 1..Len(log) :
          log[i].op = "get_items"
          => LET t == log[i].arg
             IN  IF log[i].outcome # "ok"
                 THEN /\ ret.val[t].p = "str"
                      /\ HasSuffix(ret.val[t].v, EngineMsg(log[i].outcome))
                 ELSE ret.val[t] = Payload("item_list", ItemsOfType(items, t))
     /\ {log[i].arg : i \in {j \in 1..Len(log) : log[j].op = "get_items"}} = ItemTypes

\* C13 witness: the enumeration of tracks raised, the footprints are listed.
C13_Witness ==
  /\ call.tool = "get_board_status"
  /\ ret.kind = "value"
  /\ ret.val["track"].p = "str"
  /\ ret.val["footprint"] = Payload("item_list", {"A"})
  /\ \E i \in 1..Len(log) : log[i] = Call("get_items", "track", "ApiError")

\* C14: two flow managers of the same kind on one transport are
\* independent: once constructed, every action an instance registered is
\* published as that instance's and so runs against it, and an invocation
\* changes neither the Action Sequence, the Item Type Cache nor the
\* published tools of an instance other than the one it runs on.
C14_IndependentInstances ==
  [][/\ \A m \in Instances :
          phase'[m] = "done" => \A n \in mcp_tools'[m] : tools'[n] = m
     /\ call'.tool \in StepSet("edit")
          => /\ tools' = tools
             /\ \A m \in Instances \ {call'.m} :
                  /\ action_flow'[m] = action_flow[m]
                  /\ item_type_cache'[m] = item_type_cache[m]]_vars

\* The three-step flows.
ThreeStep == {"create", "edit", "move"}

\* C15: step 1 of the create, edit and move flows may be skipped.  It
\* leaves the Action Sequences, the Item Type Caches, the published tools
\* and the board's items as they were; and what step 2 returns, what it
\* asks of the engine and the Item Type Cache it leaves are those of the
\* same call made on a manager that never ran a step before (no Board
\* Handle yet).
C15_StepOneSkippable ==
  [][/\ call'.tool \in {Steps(m)[1] : m \in ThreeStep}
          => UNCHANGED <<action_flow, mcp_tools, tools, item_type_cache, items, protos>>
     /\ call'.tool \in {Steps(m)[2] : m \in ThreeStep}
          => LET m == call'.m
             IN  /\ action_flow' = action_flow
                 /\ \E eng \in EngineRuns(2) :
                      LET w == initialize_func(call'.tool, call'.args, action_flow[m],
                                               item_type_cache[m], "unset", items,
                                               protos, eng)
                      IN  /\ ret' = IF w.escaped THEN [kind |-> "raised", exc |-> w.out]
                                    ELSE [kind |-> "envelope", env |-> w.out]
                          /\ item_type_cache'[m] = w.cache
                          /\ items' = w.items
                          /\ log' = w.log]_vars

\* C15 witness: edit_item_step_2 answered with the footprints of the board
\* on a manager whose cache it set.
C15_Witness ==
  /\ call.tool = "edit_item_step_2"
  /\ call.args.item_type = "footprint"
  /\ ret.kind = "envelope"
  /\ ret.env.status = "success"
  /\ ret.env.result.result.v.item_list = {"A"}
  /\ item_type_cache["edit"] = "footprint"

\* The flows that keep an Item Type Cache.
Caching == {"edit", "move"}

\* Step 3 of a caching flow looks its item up among the items of the
\* cached type: it asks the engine for the items of that type only, and it
\* hands an item to update_items, or reports success, only when the
\* identifier names an item of that type.
LookupUnderCache ==
  \A m \in Caching :
    call'.tool = Steps(m)[3]
    => LET found == call'.args.item_id \in ItemsOfType(items, item_type_cache[m])
       IN  /\ \A i \in 1..Len(log') :
                /\ log'[i].op = "get_items" => log'[i].arg = item_type_cache[m]
                /\ (log'[i].op = "update_items" /\ log'[i].outcome # "TypeError")
                     => found
           /\ (ret'.kind = "envelope" /\ ret'.env.status = "success") => found

\* Only step 2 of a caching flow changes that flow's cache.
OnlyStep2Caches ==
  \A m \in Caching :
    call'.tool # Steps(m)[2] => item_type_cache'[m] = item_type_cache[m]

\* C16 as stated: every step-2 invocation of the edit or move flow
\* overwrites that manager's cache with the type passed, nothing else
\* changes it, and step 3 looks the item up under the cached type; so
\* step 3 resolves under the type of the most recent step-2 invocation.
C16_EveryStep2Caches ==
  [][/\ \A m \in Caching :
          call'.tool = Steps(m)[2] => item_type_cache'[m] = call'.args.item_type
     /\ OnlyStep2Caches
     /\ LookupUnderCache]_vars

\* C16 amended: a step-2 invocation whose board fetch succeeded overwrites
\* the cache with the type passed, one whose board fetch failed leaves the
\* cache as it was, nothing else changes it, and step 3 looks the item up
\* under the cached type; so step 3 resolves under the type of the most
\* recent step-2 invocation that got its board.
C16_LookupUnderLatestType ==
  [][/\ \A m \in Caching :
          call'.tool = Steps(m)[2]
          => item_type_cache'[m] = IF log'[1].outcome = "ok" THEN call'.args.item_type
                                   ELSE item_type_cache[m]
     /\ OnlyStep2Caches
     /\ LookupUnderCache]_vars

\* C16 witness: step 3 of the edit flow, the cache holding "track", is
\* given the footprint A: the engine is asked for tracks and A is not found.
C16_Witness ==
  /\ call.tool = "edit_item_step_3"
  /\ call.args.item_id = "A"
  /\ items["A"] = "footprint"
  /\ item_type_cache["edit"] = "track"
  /\ log[Len(log)] = Call("get_items", "track", "ok")
  /\ ret.kind = "envelope"
  /\ ret.env.status = "error"
  /\ ret.env.error_type = "AttributeError"

\* Calls that read or change the board through a Board Handle.
BoardOps == {"get_items", "create_items", "update_items", "remove_items_by_id"}

\* C17: every wrapper invocation fetches the Board Handle first.  When the
\* fetch succeeds the manager holds that handle and every call the body
\* makes on the board follows a successful fetch of the same invocation;
\* when it fails the body is not executed: nothing else is asked of the
\* engine, and the board's items and the manager's state stay as they were.
C17_BoardFetchedFirst ==
  [][call'.tool \in ToolNames
     => /\ log' # <<>>
        /\ log'[1].op = "get_board"
        /\ IF log'[1].outcome = "ok"
           THEN /\ board'[call'.m] = "handle"
                /\ \A i \in 1..Len(log') :
                     log'[i].op \in BoardOps
                     => \E j \in 1..(i - 1) :
                          log'[j].op = "get_board" /\ log'[j].outcome = "ok"
           ELSE /\ Len(log') = 1
                /\ ret'.kind = "raised"
                /\ UNCHANGED <<items, protos, item_type_cache, board, action_flow,
                               mcp_tools, tools>>]_vars

\* C17 witness: the board fetch of a create_item_step_3 invocation failed.
C17_Witness ==
  /\ call.tool = "create_item_step_3"
  /\ call.args = [item_type |-> "footprint", args |-> "well_typed"]
  /\ log = <<Call("get_board", None, "ApiError")>>
  /\ ret.kind = "raised"

\* C18: the Action Sequence is append-only during registration and
\* read-only during execution: an action_setter call, failing or not,
\* appends exactly the one name at the end and changes no earlier element;
\* an invocation of an action, get_next_action and response_formatter
\* change neither the Action Sequence nor the published tools.
C18_AppendOnlyThenReadOnly ==
  [][/\ call'.tool = "action_setter"
          => action_flow'["lib"] = Append(action_flow["lib"], call'.name)
     /\ call'.tool \in LibNames \cup {"get_next_action", "response_formatter"}
          => /\ action_flow' = action_flow
             /\ tools' = tools
             /\ mcp_tools' = mcp_tools]_vars

\* C18 witness: a failing action_setter call has put its name third in
\* the sequence, after two different names.
C18_Witness ==
  /\ call.tool = "action_setter"
  /\ ~call.ok
  /\ Len(action_flow["lib"]) = 3
  /\ action_flow["lib"][3] = call.name
  /\ action_flow["lib"][1] # call.name
  /\ action_flow["lib"][2] # call.name

C20_Step3NeedsOwnStep2 ==
  \A m \in Caching :
    (/\ call.tool = Steps(m)[3]
     /\ call.args.item_id \notin ItemsOfType(items, item_type_cache[m]))
    => /\ ret.kind = "envelope"
       /\ ret.env.status = "error"
       /\ \A i \in 1..Len(log) : log[i].op # "update_items"

\* C21: a step-2 invocation of the edit or move flow with item type t whose
\* board fetch succeeded returns an Envelope and leaves that manager's
\* cache equal to t, whether the Envelope says success or error: an
\* unknown type, or an engine fault while the items are enumerated, ends
\* the step in an error Envelope with the cache already replaced.  Step 3
\* then runs under that cache: when it holds no known type, step 3 asks the
\* engine for no items, commits no update and returns an error Envelope.
C21_FailedStep2StillCaches ==
  [][\A m \in Caching :
       /\ (call'.tool = Steps(m)[2] /\ log'[1].outcome = "ok")
            => /\ ret'.kind = "envelope"
               /\ item_type_cache'[m] = call'.args.item_type
               /\ (\/ ~KnownType(call'.args.item_type)
                   \/ \E i \in 1..Len(log') : log'[i].outcome # "ok")
                    => ret'.env.status = "error"
       /\ (call'.tool = Steps(m)[3] /\ ~KnownType(item_type_cache[m]))
            => /\ item_type_cache'[m] = item_type_cache[m]
               /\ \A i \in 1..Len(log') :
                    log'[i].op \notin {"get_items", "update_items"}
               /\ ret'.kind = "envelope" => ret'.env.status = "error"]_vars

\* C21 witness: step 2 of the move flow was given an unknown type after its
\* board fetch succeeded: it ended in a KeyError Envelope and the move
\* manager's cache holds the unknown type.
C21_Witness ==
  /\ call.tool = "move_item_step_2"
  /\ ~KnownType(call.args.item_type)
  /\ log = <<Call("get_board", None, "ok")>>
  /\ ret.kind = "envelope"
  /\ ret.env.status = "error"
  /\ ret.env.error_type = "KeyError"
  /\ item_type_cache["move"] = call.args.item_type

====
